---- MODULE Spec2Model ----
(***************************************************************************)
(* Model of the documentation generator: the JSON recovery function        *)
(* ensure_json_response (src/main.py), the three-stage pipeline            *)
(* generate_documentation with the button handler that starts it           *)
(* (src/main.py), and the PDF renderer DocumentacaoTecnicaPDF              *)
(* (src/pdf_generator.py).                                                 *)
(*                                                                         *)
(* A text is a sequence of one-character strings.  A Python value is a     *)
(* record [t, v]: t is the Python type and v is always a sequence, so that  *)
(* two values of different types can be compared.                          *)
(***************************************************************************)
EXTENDS Integers, Sequences, FiniteSets, TLC

(***************************************************************************)
(* Python values as json.loads builds them and json.dumps reads them.      *)
(***************************************************************************)
None == [t |-> "NoneType", v |-> <<>>]

Bool(b) == [t |-> "bool", v |-> <<b>>]

PyInt(n) == [t |-> "int", v |-> <<n>>]

Str(chars) == [t |-> "str", v |-> chars]

List(items) == [t |-> "list", v |-> items]

\* a dict keeps its items in insertion order; an item is [k |-> text, val |-> value]
Dict(items) == [t |-> "dict", v |-> items]

Item(key, value) == [k |-> key, val |-> value]

IsDict(x) == x.t = "dict"

HasKey(d, key) == \E i \in 1..Len(d.v) : d.v[i].k = key

\* d[key], for a key the dict has
GetItem(d, key) == d.v[CHOOSE i \in 1..Len(d.v) : d.v[i].k = key].val

\* d.get(key, default)
DictGet(d, key, default) == IF HasKey(d, key) THEN GetItem(d, key) ELSE default

\* d[key] = value on the item list: a repeated key keeps its place and takes the new value
SetItem(items, key, value) ==
    IF \E i \in 1..Len(items) : items[i].k = key
    THEN [i \in 1..Len(items) |-> IF items[i].k = key THEN Item(key, value) ELSE items[i]]
    ELSE Append(items, Item(key, value))

(***************************************************************************)
(* json.loads.  The decoder is the standard library's: the whole text is   *)
(* one value between optional whitespace.  Modelled: objects, arrays,      *)
(* strings with the escapes \" \\ \/ \n \r \t \f and the \uXXXX of NonAscii, *)
(* integers, null, true, false.  The texts of this model hold no fraction, *)
(* exponent, NaN, Infinity or other escape, which the decoder also takes.  *)
(***************************************************************************)
WHITESPACE == {" ", "\t", "\n", "\r"}

Digits == <<"0", "1", "2", "3", "4", "5", "6", "7", "8", "9">>

IsDigit(c) == \E d \in 1..Len(Digits) : Digits[d] = c

DigitVal(c) == (CHOOSE d \in 1..Len(Digits) : Digits[d] = c) - 1

\* the \uXXXX escapes of the non-ASCII characters that occur
NonAscii ==
    [c \in {"ã", "í", "á"} |->
        IF c = "ã" THEN <<"\\", "u", "0", "0", "e", "3">>
        ELSE IF c = "í" THEN <<"\\", "u", "0", "0", "e", "d">>
        ELSE <<"\\", "u", "0", "0", "e", "1">>]

\* the two-character escapes: the character after the backslash, and what it stands for
Escapes ==
    [c \in {"\"", "\\", "/", "n", "r", "t", "f"} |->
        IF c = "n" THEN "\n" ELSE IF c = "r" THEN "\r" ELSE IF c = "t" THEN "\t"
        ELSE IF c = "f" THEN "\f" ELSE c]

\* the outcome of a scan: a value and the index after it, or a JSONDecodeError
Scanned(value, next) == [ok |-> TRUE, val |-> value, end |-> next]

JSONDecodeError == [ok |-> FALSE, val |-> None, end |-> 0]

CharAt(s, i) == IF i >= 1 /\ i <= Len(s) THEN s[i] ELSE ""

\* s[i..i+Len(w)-1] = w
StartsWith(s, i, w) ==
    /\ i + Len(w) - 1 <= Len(s)
    /\ \A j \in 1..Len(w) : s[i + j - 1] = w[j]

RECURSIVE SkipWhitespace(_, _)
SkipWhitespace(s, i) ==
    IF i <= Len(s) /\ s[i] \in WHITESPACE THEN SkipWhitespace(s, i + 1) ELSE i

\* the string whose opening quote is before index i
RECURSIVE scanstring(_, _, _)
scanstring(s, i, chars) ==
    IF i > Len(s) THEN JSONDecodeError
    ELSE IF s[i] = "\"" THEN Scanned(Str(chars), i + 1)
    ELSE IF s[i] = "\\"
         THEN IF CharAt(s, i + 1) \in DOMAIN Escapes
              THEN scanstring(s, i + 2, Append(chars, Escapes[s[i + 1]]))
              ELSE IF \E c \in DOMAIN NonAscii : StartsWith(s, i, NonAscii[c])
              THEN scanstring(s, i + 6,
                       Append(chars, CHOOSE c \in DOMAIN NonAscii : StartsWith(s, i, NonAscii[c])))
              ELSE JSONDecodeError
    ELSE IF s[i] \in {"\t", "\n", "\r", "\f"} THEN JSONDecodeError
    ELSE scanstring(s, i + 1, Append(chars, s[i]))

\* the digits from index i on: [n |-> their value, end |-> the index after them]
RECURSIVE ScanDigits(_, _, _)
ScanDigits(s, i, n) ==
    IF i <= Len(s) /\ IsDigit(s[i])
    THEN ScanDigits(s, i + 1, 10 * n + DigitVal(s[i]))
    ELSE [n |-> n, end |-> i]

\* -?(0|[1-9][0-9]*) at index i
ScanNumber(s, i) ==
    LET neg == CharAt(s, i) = "-"
        j == IF neg THEN i + 1 ELSE i
    IN  IF ~IsDigit(CharAt(s, j)) THEN JSONDecodeError
        ELSE IF s[j] = "0" THEN Scanned(PyInt(0), j + 1)
        ELSE LET d == ScanDigits(s, j, 0)
             IN  Scanned(PyInt(IF neg THEN 0 - d.n ELSE d.n), d.end)

RECURSIVE scan_once(_, _)
RECURSIVE JSONObject(_, _, _)
RECURSIVE JSONArray(_, _, _)

\* the value that starts at index i
scan_once(s, i) ==
    LET c == CharAt(s, i)
    IN  IF c = "\"" THEN scanstring(s, i + 1, <<>>)
        ELSE IF c = "{"
             THEN LET j == SkipWhitespace(s, i + 1)
                  IN  IF CharAt(s, j) = "}" THEN Scanned(Dict(<<>>), j + 1)
                      ELSE JSONObject(s, j, <<>>)
        ELSE IF c = "["
             THEN LET j == SkipWhitespace(s, i + 1)
                  IN  IF CharAt(s, j) = "]" THEN Scanned(List(<<>>), j + 1)
                      ELSE JSONArray(s, j, <<>>)
        ELSE IF StartsWith(s, i, <<"n", "u", "l", "l">>) THEN Scanned(None, i + 4)
        ELSE IF StartsWith(s, i, <<"t", "r", "u", "e">>) THEN Scanned(Bool(TRUE), i + 4)
        ELSE IF StartsWith(s, i, <<"f", "a", "l", "s", "e">>)
             THEN Scanned(Bool(FALSE), i + 5)
        ELSE ScanNumber(s, i)

\* the members of an object from index i on, where a key's opening quote must be
JSONObject(s, i, items) ==
    IF CharAt(s, i) # "\"" THEN JSONDecodeError
    ELSE LET key == scanstring(s, i + 1, <<>>)
         IN  IF ~key.ok THEN JSONDecodeError
             ELSE LET colon == SkipWhitespace(s, key.end)
                  IN  IF CharAt(s, colon) # ":" THEN JSONDecodeError
                      ELSE LET value == scan_once(s, SkipWhitespace(s, colon + 1))
                           IN  IF ~value.ok THEN JSONDecodeError
                               ELSE LET j == SkipWhitespace(s, value.end)
                                        got == SetItem(items, key.val.v, value.val)
                                    IN  IF CharAt(s, j) = "}"
                                        THEN Scanned(Dict(got), j + 1)
                                        ELSE IF CharAt(s, j) = ","
                                        THEN JSONObject(s, SkipWhitespace(s, j + 1), got)
                                        ELSE JSONDecodeError

\* the elements of an array from index i on
JSONArray(s, i, items) ==
    LET value == scan_once(s, i)
    IN  IF ~value.ok THEN JSONDecodeError
        ELSE LET j == SkipWhitespace(s, value.end)
                 got == Append(items, value.val)
             IN  IF CharAt(s, j) = "]" THEN Scanned(List(got), j + 1)
                 ELSE IF CharAt(s, j) = ","
                 THEN JSONArray(s, SkipWhitespace(s, j + 1), got)
                 ELSE JSONDecodeError

\* json.loads(s): .ok is FALSE where it raises JSONDecodeError
json_loads(s) ==
    LET value == scan_once(s, SkipWhitespace(s, 1))
    IN  IF ~value.ok THEN JSONDecodeError
        ELSE IF SkipWhitespace(s, value.end) # Len(s) + 1 THEN JSONDecodeError
        ELSE value

(***************************************************************************)
(* json.dumps.  NoIndent stands for indent=None.  The non-ASCII characters *)
(* of the texts of this model are those of NonAscii.                       *)
(***************************************************************************)
NoIndent == 0 - 1

\* one character of a string between the quotes
EncodeChar(c, ensure_ascii) ==
    IF c = "\"" THEN <<"\\", "\"">>
    ELSE IF c = "\\" THEN <<"\\", "\\">>
    ELSE IF c = "\n" THEN <<"\\", "n">>
    ELSE IF c = "\r" THEN <<"\\", "r">>
    ELSE IF c = "\t" THEN <<"\\", "t">>
    ELSE IF c = "\f" THEN <<"\\", "f">>
    ELSE IF ensure_ascii /\ c \in DOMAIN NonAscii THEN NonAscii[c]
    ELSE <<c>>

RECURSIVE EncodeChars(_, _)
EncodeChars(chars, ensure_ascii) ==
    IF chars = <<>> THEN <<>>
    ELSE EncodeChar(Head(chars), ensure_ascii) \o EncodeChars(Tail(chars), ensure_ascii)

encode_basestring(chars, ensure_ascii) ==
    <<"\"">> \o EncodeChars(chars, ensure_ascii) \o <<"\"">>

RECURSIVE NatRepr(_)
NatRepr(n) ==
    IF n < 10 THEN <<Digits[n + 1]>> ELSE NatRepr(n \div 10) \o <<Digits[(n % 10) + 1]>>

IntRepr(n) == IF n < 0 THEN <<"-">> \o NatRepr(0 - n) ELSE NatRepr(n)

RECURSIVE Spaces(_)
Spaces(n) == IF n <= 0 THEN <<>> ELSE <<" ">> \o Spaces(n - 1)

\* what stands before each item of a container at nesting depth level, the first but for its comma
NewlineIndent(indent, level) ==
    IF indent = NoIndent THEN <<>> ELSE <<"\n">> \o Spaces(indent * level)

ItemSeparator(indent, level) ==
    IF indent = NoIndent THEN <<",", " ">> ELSE <<",">> \o NewlineIndent(indent, level)

RECURSIVE iterencode(_, _, _, _)
RECURSIVE iterencode_items(_, _, _, _, _)

\* the items of a list (is_dict FALSE) or dict (is_dict TRUE), separators included
iterencode_items(items, is_dict, ensure_ascii, indent, level) ==
    IF items = <<>> THEN <<>>
    ELSE LET first == Head(items)
             one == IF is_dict
                    THEN encode_basestring(first.k, ensure_ascii) \o <<":", " ">>
                         \o iterencode(first.val, ensure_ascii, indent, level)
                    ELSE iterencode(first, ensure_ascii, indent, level)
         IN  one \o (IF Len(items) = 1 THEN <<>> ELSE ItemSeparator(indent, level))
                 \o iterencode_items(Tail(items), is_dict, ensure_ascii, indent, level)

\* the text of value o, itself at nesting depth level
iterencode(o, ensure_ascii, indent, level) ==
    IF o.t = "str" THEN encode_basestring(o.v, ensure_ascii)
    ELSE IF o.t = "NoneType" THEN <<"n", "u", "l", "l">>
    ELSE IF o.t = "bool"
         THEN IF o.v[1] THEN <<"t", "r", "u", "e">> ELSE <<"f", "a", "l", "s", "e">>
    ELSE IF o.t = "int" THEN IntRepr(o.v[1])
    ELSE LET open == IF o.t = "dict" THEN "{" ELSE "["
             close == IF o.t = "dict" THEN "}" ELSE "]"
         IN  IF o.v = <<>> THEN <<open, close>>
             ELSE <<open>> \o NewlineIndent(indent, level + 1)
                  \o iterencode_items(o.v, o.t = "dict", ensure_ascii, indent, level + 1)
                  \o NewlineIndent(indent, level) \o <<close>>

\* json.dumps(obj)
json_dumps(obj) == iterencode(obj, TRUE, NoIndent, 0)

\* json.dumps(obj, indent=2, ensure_ascii=False)
json_dumps_indent(obj) == iterencode(obj, FALSE, 2, 0)

(***************************************************************************)
(* ensure_json_response                                                    *)
(***************************************************************************)
K_erro == <<"e", "r", "r", "o">>

K_resposta_original ==
    <<"r", "e", "s", "p", "o", "s", "t", "a", "_", "o", "r", "i", "g", "i", "n", "a", "l">>

\* "Não foi possível gerar um JSON válido"
MsgErro ==
    <<"N", "ã", "o", " ", "f", "o", "i", " ", "p", "o", "s", "s", "í", "v", "e", "l", " ",
      "g", "e", "r", "a", "r", " ", "u", "m", " ", "J", "S", "O", "N", " ",
      "v", "á", "l", "i", "d", "o">>

\* the error object of the except branch
ErrorObject(response) ==
    Dict(<<Item(K_erro, Str(MsgErro)), Item(K_resposta_original, Str(response))>>)

\* str.find(c): the 0-based index of the first c, or -1
RECURSIVE FindFrom(_, _, _)
FindFrom(s, c, i) ==
    IF i > Len(s) THEN 0 - 1 ELSE IF s[i] = c THEN i - 1 ELSE FindFrom(s, c, i + 1)

find(s, c) == FindFrom(s, c, 1)

\* str.rfind(c): the 0-based index of the last c, or -1
RECURSIVE RFindFrom(_, _, _)
RFindFrom(s, c, i) ==
    IF i < 1 THEN 0 - 1 ELSE IF s[i] = c THEN i - 1 ELSE RFindFrom(s, c, i - 1)

rfind(s, c) == RFindFrom(s, c, Len(s))

\* s[start:end] with 0 <= start and 0 <= end <= len(s)
Slice(s, start, end) == SubSeq(s, start + 1, end)

\* ensure_json_response with line 106 lacking its + 1: the slice loses the last brace
ensure_json_response_off_by_one(response) ==
    LET direct == json_loads(response)
        start_idx == find(response, "{")
        end_idx == rfind(response, "}")
        json_str == Slice(response, start_idx, end_idx)
        sliced == json_loads(json_str)
    IN  IF direct.ok THEN direct.val
        ELSE IF start_idx # 0 - 1 /\ end_idx # 0 - 1
             THEN IF sliced.ok THEN sliced.val ELSE ErrorObject(response)
             ELSE None

\* the dict or other value returned; the function returns None where it falls off its end
ensure_json_response(response) ==
    LET direct == json_loads(response)
        start_idx == find(response, "{")
        end_idx == rfind(response, "}") + 1
        json_str == Slice(response, start_idx, end_idx)
        sliced == json_loads(json_str)
    IN  IF direct.ok THEN direct.val
        ELSE IF start_idx # 0 - 1 /\ end_idx # 0
             THEN IF sliced.ok THEN sliced.val ELSE ErrorObject(response)
             ELSE None

(***************************************************************************)
(* DocumentacaoTecnicaPDF (src/pdf_generator.py).  A flowable is a record  *)
(* [kind, style, text, args]: text is the literal or the f-string with {}  *)
(* for each interpolated value and args are those values in order.  The    *)
(* renderer state is [raised, elements]: raised is TRUE once a statement   *)
(* has raised (KeyError, TypeError, AttributeError), and the statements    *)
(* after it do not run.  reportlab's own markup parsing is not modelled:   *)
(* the texts of this model hold no markup.  The bullet character U+2022   *)
(* of the source is written * here.                                        *)
(***************************************************************************)
K_requisitos_funcionais ==
    <<"r", "e", "q", "u", "i", "s", "i", "t", "o", "s",
      "_", "f", "u", "n", "c", "i", "o", "n", "a", "i", "s">>

K_requisitos_nao_funcionais ==
    <<"r", "e", "q", "u", "i", "s", "i", "t", "o", "s", "_", "n",
      "a", "o", "_", "f", "u", "n", "c", "i", "o", "n", "a", "i", "s">>

K_id == <<"i", "d">>

K_descricao == <<"d", "e", "s", "c", "r", "i", "c", "a", "o">>

K_prioridade == <<"p", "r", "i", "o", "r", "i", "d", "a", "d", "e">>

K_tipo == <<"t", "i", "p", "o">>

K_componentes == <<"c", "o", "m", "p", "o", "n", "e", "n", "t", "e", "s">>

K_nome == <<"n", "o", "m", "e">>

K_responsabilidades ==
    <<"r", "e", "s", "p", "o", "n", "s", "a",
      "b", "i", "l", "i", "d", "a", "d", "e", "s">>

K_dependencias == <<"d", "e", "p", "e", "n", "d", "e", "n", "c", "i", "a", "s">>

K_fluxos == <<"f", "l", "u", "x", "o", "s">>

K_passos == <<"p", "a", "s", "s", "o", "s">>

K_apis == <<"a", "p", "i", "s">>

K_rota == <<"r", "o", "t", "a">>

K_metodo == <<"m", "e", "t", "o", "d", "o">>

K_parametros == <<"p", "a", "r", "a", "m", "e", "t", "r", "o", "s">>

K_respostas == <<"r", "e", "s", "p", "o", "s", "t", "a", "s">>

Paragraph(text, args, style) ==
    [kind |-> "Paragraph", style |-> style, text |-> text, args |-> args]

Spacer(width, height) ==
    [kind |-> "Spacer", style |-> "", text |-> "", args |-> <<PyInt(width), PyInt(height)>>]

Emit(st, flowable) == [st EXCEPT !.elements = Append(@, flowable)]

Raise(st) == [st EXCEPT !.raised = TRUE]

\* x[key] evaluates: x is a dict that has the key
CanSubscript(x, key) == IsDict(x) /\ HasKey(x, key)

\* for ... in x evaluates
Iterable(x) == x.t \in {"list", "dict", "str"}

\* what for ... in x yields: a list's items, a dict's keys, a str's characters
IterItems(x) ==
    IF x.t = "list" THEN x.v
    ELSE IF x.t = "dict" THEN [i \in 1..Len(x.v) |-> Str(x.v[i].k)]
    ELSE [i \in 1..Len(x.v) |-> Str(<<x.v[i]>>)]

\* bool(x)
Truthy(x) ==
    IF x.t \in {"list", "dict", "str"} THEN x.v # <<>>
    ELSE IF x.t = "bool" THEN x.v[1]
    ELSE IF x.t = "int" THEN x.v[1] # 0
    ELSE FALSE

\* the loop bodies of lines 61-64 and 68-71: one block per requirement
RECURSIVE AddRequisitos(_, _, _, _)
AddRequisitos(st, reqs, third, text) ==
    IF st.raised \/ reqs = <<>> THEN st
    ELSE LET req == Head(reqs)
         IN  IF ~(CanSubscript(req, K_id) /\ CanSubscript(req, K_descricao)
                  /\ CanSubscript(req, third))
             THEN Raise(st)
             ELSE AddRequisitos(
                      Emit(Emit(st, Paragraph(text,
                                    <<GetItem(req, K_id), GetItem(req, K_descricao),
                                      GetItem(req, third)>>, "Normal")),
                           Spacer(1, 12)),
                      Tail(reqs), third, text)

\* for ... in x.get(key, []): the loop over the requirements under key
AddRequisitosOf(st, requisitos_json, key, third, text) ==
    IF st.raised THEN st
    ELSE IF ~IsDict(requisitos_json) THEN Raise(st)
    ELSE LET reqs == DictGet(requisitos_json, key, List(<<>>))
         IN  IF ~Iterable(reqs) THEN Raise(st)
             ELSE AddRequisitos(st, IterItems(reqs), third, text)

_add_requisitos_section(st, requisitos_json) ==
    LET a == Emit(Emit(Emit(st,
                 Paragraph("1. Requisitos do Sistema", <<>>, "Heading2")),
                 Spacer(1, 12)),
                 Paragraph("1.1 Requisitos Funcionais", <<>>, "Heading3"))
        b == AddRequisitosOf(a, requisitos_json, K_requisitos_funcionais, K_prioridade,
                 "ID: {}\nDescrição: {}\nPrioridade: {}")
        c == IF b.raised THEN b
             ELSE Emit(b, Paragraph("1.2 Requisitos Não Funcionais", <<>>, "Heading3"))
    IN  AddRequisitosOf(c, requisitos_json, K_requisitos_nao_funcionais, K_tipo,
            "ID: {}\nDescrição: {}\nTipo: {}")

\* for x in items: one paragraph text with x, numbered from n where the loop enumerates
RECURSIVE AddEach(_, _, _, _, _)
AddEach(st, items, text, numbered, n) ==
    IF st.raised \/ items = <<>> THEN st
    ELSE AddEach(Emit(st, Paragraph(text,
                     IF numbered THEN <<PyInt(n), Head(items)>> ELSE <<Head(items)>>,
                     "Normal")),
                 Tail(items), text, numbered, n + 1)

\* the label and the loop over x[key], which must be there and iterable
AddListOf(st, x, key, label, text, numbered) ==
    IF st.raised THEN st
    ELSE LET a == IF label = "" THEN st ELSE Emit(st, Paragraph(label, <<>>, "Normal"))
         IN  IF ~CanSubscript(x, key) THEN Raise(a)
             ELSE IF ~Iterable(GetItem(x, key)) THEN Raise(a)
             ELSE AddEach(a, IterItems(GetItem(x, key)), text, numbered, 1)

\* the loop body of lines 79-90
RECURSIVE AddComponentes(_, _)
AddComponentes(st, comps) ==
    IF st.raised \/ comps = <<>> THEN st
    ELSE LET comp == Head(comps)
         IN  IF ~CanSubscript(comp, K_nome) THEN Raise(st)
             ELSE LET a == Emit(st, Paragraph("Componente: {}",
                                   <<GetItem(comp, K_nome)>>, "Heading3"))
                  IN  IF ~CanSubscript(comp, K_descricao) THEN Raise(a)
                      ELSE LET b == Emit(a, Paragraph("Descrição: {}",
                                            <<GetItem(comp, K_descricao)>>, "Normal"))
                               c == AddListOf(b, comp, K_responsabilidades,
                                        "Responsabilidades:", "* {}", FALSE)
                               d == AddListOf(c, comp, K_dependencias,
                                        "Dependências:", "* {}", FALSE)
                           IN  IF d.raised THEN d
                               ELSE AddComponentes(Emit(d, Spacer(1, 12)), Tail(comps))

\* the loop body of lines 96-99
RECURSIVE AddFluxos(_, _)
AddFluxos(st, fluxos) ==
    IF st.raised \/ fluxos = <<>> THEN st
    ELSE LET fluxo == Head(fluxos)
         IN  IF ~CanSubscript(fluxo, K_nome) THEN Raise(st)
             ELSE LET a == Emit(st, Paragraph("Fluxo: {}",
                                   <<GetItem(fluxo, K_nome)>>, "Normal"))
                      b == AddListOf(a, fluxo, K_passos, "", "{}. {}", TRUE)
                  IN  IF b.raised THEN b
                      ELSE AddFluxos(Emit(b, Spacer(1, 12)), Tail(fluxos))

_add_fluxo_section(st, fluxo_json) ==
    IF st.raised THEN st
    ELSE LET a == Emit(Emit(st,
                      Paragraph("2. Fluxo de Componentes", <<>>, "Heading2")),
                      Spacer(1, 12))
         IN  IF ~IsDict(fluxo_json) THEN Raise(a)
             ELSE LET comps == DictGet(fluxo_json, K_componentes, List(<<>>))
                      b == IF ~Iterable(comps) THEN Raise(a)
                           ELSE AddComponentes(a, IterItems(comps))
                  IN  IF b.raised \/ ~HasKey(fluxo_json, K_fluxos) THEN b
                      ELSE LET c == Emit(b, Paragraph("Fluxos:", <<>>, "Heading3"))
                               fluxos == GetItem(fluxo_json, K_fluxos)
                           IN  IF ~Iterable(fluxos) THEN Raise(c)
                               ELSE AddFluxos(c, IterItems(fluxos))

\* for k, v in d.items(): one bullet per item
RECURSIVE AddItems(_, _)
AddItems(st, items) ==
    IF items = <<>> THEN st
    ELSE AddItems(Emit(st, Paragraph("* {}: {}",
                      <<Str(Head(items).k), Head(items).val>>, "Normal")),
                  Tail(items))

\* lines 111-120 of the loop body: the parameters if any, the responses, the spacer
AddApiMaps(st, api) ==
    IF ~CanSubscript(api, K_parametros) THEN Raise(st)
    ELSE LET parametros == GetItem(api, K_parametros)
             a == IF ~Truthy(parametros) THEN st
                  ELSE LET l == Emit(st, Paragraph("Parâmetros:", <<>>, "Normal"))
                       IN  IF ~IsDict(parametros) THEN Raise(l)
                           ELSE AddItems(l, parametros.v)
         IN  IF a.raised THEN a
             ELSE LET b == Emit(a, Paragraph("Respostas:", <<>>, "Normal"))
                  IN  IF ~CanSubscript(api, K_respostas) THEN Raise(b)
                      ELSE IF ~IsDict(GetItem(api, K_respostas)) THEN Raise(b)
                      ELSE Emit(AddItems(b, GetItem(api, K_respostas).v), Spacer(1, 12))

\* the loop body of lines 107-120
RECURSIVE AddApis(_, _)
AddApis(st, apis) ==
    IF st.raised \/ apis = <<>> THEN st
    ELSE LET api == Head(apis)
         IN  IF ~CanSubscript(api, K_rota) THEN Raise(st)
             ELSE LET a == Emit(st, Paragraph("Rota: {}",
                                   <<GetItem(api, K_rota)>>, "Heading3"))
                  IN  IF ~CanSubscript(api, K_metodo) THEN Raise(a)
                      ELSE LET b == Emit(a, Paragraph("Método: {}",
                                            <<GetItem(api, K_metodo)>>, "Normal"))
                           IN  IF ~CanSubscript(api, K_descricao) THEN Raise(b)
                               ELSE LET c == Emit(b, Paragraph("Descrição: {}",
                                                 <<GetItem(api, K_descricao)>>, "Normal"))
                                    IN  AddApis(AddApiMaps(c, api), Tail(apis))

_add_apis_section(st, apis_json) ==
    IF st.raised THEN st
    ELSE LET a == Emit(Emit(st,
                      Paragraph("3. Mapa de APIs", <<>>, "Heading2")),
                      Spacer(1, 12))
         IN  IF ~IsDict(apis_json) THEN Raise(a)
             ELSE LET apis == DictGet(apis_json, K_apis, List(<<>>))
                  IN  IF ~Iterable(apis) THEN Raise(a)
                      ELSE AddApis(a, IterItems(apis))

\* create_pdf: the flowables handed to doc.build, or raised
create_pdf(requisitos_json, fluxo_json, apis_json) ==
    LET elements == <<Paragraph("Documentação Técnica", <<>>, "Heading1"), Spacer(1, 30)>>
        st == [raised |-> FALSE, elements |-> elements]
    IN  _add_apis_section(
            _add_fluxo_section(_add_requisitos_section(st, requisitos_json), fluxo_json),
            apis_json)

gerar_pdf(requisitos, fluxo, apis) == create_pdf(requisitos, fluxo, apis)

(***************************************************************************)
(* The Streamlit script of src/main.py: the widgets, the button handler    *)
(* and generate_documentation.  chains[...].invoke is a blocking call to    *)
(* the model API: the handler issues it and resumes when it returns a text  *)
(* or raises.                                                              *)
(***************************************************************************)
VARIABLES
    system_description,  \* the text area
    openai_api_key,      \* the sidebar's password field
    pc,                  \* where the script stands
    requests,            \* the model invocations of this run: [stage, payload]
    outcomes,            \* how each returned: [raised, text]
    requisitos_json,     \* the locals of generate_documentation
    fluxo_json,
    apis_json,
    pdf_buffer,          \* what gerar_pdf did: [raised, elements]
    ui,                  \* the st.* calls of this run: [w, label]
    json_download,       \* the data of the JSON download button
    response,            \* the argument of a call of ensure_json_response alone
    result               \* and what it returned

vars ==
    <<system_description, openai_api_key, pc, requests, outcomes, requisitos_json,
      fluxo_json, apis_json, pdf_buffer, ui, json_download, response, result>>

\* a local that is not bound yet
Unbound == [t |-> "unbound", v |-> <<>>]

NoPdf == [raised |-> FALSE, elements |-> <<>>]

MaxLen == 5

MaxItems == 1

\* the characters of the texts tried on ensure_json_response
Alphabet == {"{", "}", "[", "]", "\"", "1", "x", " "}

TextsUpTo(n) == UNION {[1..m -> Alphabet] : m \in 0..n}

\* the model answers in prose (no brace at all):
\*   I cannot comply.
T_recusa ==
    <<"I", " ", "c", "a", "n", "n", "o", "t", " ", "c", "o", "m", "p", "l", "y", ".">>

\* a JSON object wrapped in prose:
\*   Here is the JSON: {"requisitos_funcionais":[],"requisitos_nao_funcionais":[]} Thanks!
T_envolvido ==
    <<"H", "e", "r", "e", " ", "i", "s", " ", "t", "h", "e", " ", "J", "S", "O", "N",
      ":", " ", "{", "\"", "r", "e", "q", "u", "i", "s", "i", "t", "o", "s", "_",
      "f", "u", "n", "c", "i", "o", "n", "a", "i", "s", "\"", ":", "[", "]", ",",
      "\"", "r", "e", "q", "u", "i", "s", "i", "t", "o", "s", "_", "n", "a", "o",
      "_", "f", "u", "n", "c", "i", "o", "n", "a", "i", "s", "\"", ":", "[", "]",
      "}", " ", "T", "h", "a", "n", "k", "s", "!">>

\* an answer cut short: braces, but no valid JSON between them:
\*   {"apis":[{}
T_truncado ==
    <<"{", "\"", "a", "p", "i", "s", "\"", ":", "[", "{", "}">>

\* valid JSON that is not an object:
\*   []
T_lista ==
    <<"[", "]">>

\* a requirements document:
\*   {"requisitos_funcionais":[{"id":"RF01","descricao":"Visualizar produtos","prioridade":"Alta"}],"requisitos_nao_funcionais":[]}
T_requisitos ==
    <<"{", "\"", "r", "e", "q", "u", "i", "s", "i", "t", "o", "s", "_", "f", "u",
      "n", "c", "i", "o", "n", "a", "i", "s", "\"", ":", "[", "{", "\"", "i", "d",
      "\"", ":", "\"", "R", "F", "0", "1", "\"", ",", "\"", "d", "e", "s", "c", "r",
      "i", "c", "a", "o", "\"", ":", "\"", "V", "i", "s", "u", "a", "l", "i", "z",
      "a", "r", " ", "p", "r", "o", "d", "u", "t", "o", "s", "\"", ",", "\"", "p",
      "r", "i", "o", "r", "i", "d", "a", "d", "e", "\"", ":", "\"", "A", "l", "t",
      "a", "\"", "}", "]", ",", "\"", "r", "e", "q", "u", "i", "s", "i", "t", "o",
      "s", "_", "n", "a", "o", "_", "f", "u", "n", "c", "i", "o", "n", "a", "i", "s",
      "\"", ":", "[", "]", "}">>

\* a requirements document whose item lacks the expected keys:
\*   {"requisitos_funcionais":[{}]}
T_item_incompleto ==
    <<"{", "\"", "r", "e", "q", "u", "i", "s", "i", "t", "o", "s", "_", "f", "u",
      "n", "c", "i", "o", "n", "a", "i", "s", "\"", ":", "[", "{", "}", "]", "}">>

\* a flow document with empty collections:
\*   {"componentes":[],"fluxos":[]}
T_fluxo ==
    <<"{", "\"", "c", "o", "m", "p", "o", "n", "e", "n", "t", "e", "s", "\"", ":",
      "[", "]", ",", "\"", "f", "l", "u", "x", "o", "s", "\"", ":", "[", "]", "}">>

\* an API map with one API without parameters:
\*   {"apis":[{"rota":"/a","metodo":"GET","descricao":"d","parametros":{},"respostas":{"200":"ok"}}]}
T_apis ==
    <<"{", "\"", "a", "p", "i", "s", "\"", ":", "[", "{", "\"", "r", "o", "t", "a",
      "\"", ":", "\"", "/", "a", "\"", ",", "\"", "m", "e", "t", "o", "d", "o", "\"",
      ":", "\"", "G", "E", "T", "\"", ",", "\"", "d", "e", "s", "c", "r", "i", "c",
      "a", "o", "\"", ":", "\"", "d", "\"", ",", "\"", "p", "a", "r", "a", "m", "e",
      "t", "r", "o", "s", "\"", ":", "{", "}", ",", "\"", "r", "e", "s", "p", "o",
      "s", "t", "a", "s", "\"", ":", "{", "\"", "2", "0", "0", "\"", ":", "\"", "o",
      "k", "\"", "}", "}", "]", "}">>

\* what the model may answer at a stage
ModelTexts ==
    {T_recusa, T_envolvido, T_truncado, T_lista, T_requisitos, T_item_incompleto,
     T_fluxo, T_apis}

Descriptions == {<<>>, <<"e", "-", "c", "o", "m", "m", "e", "r", "c", "e">>}

ApiKeys == {<<>>, <<"s", "k">>}

K_requisitos == <<"r", "e", "q", "u", "i", "s", "i", "t", "o", "s">>

K_fluxo_componentes ==
    <<"f", "l", "u", "x", "o", "_", "c", "o", "m", "p", "o", "n", "e", "n", "t", "e", "s">>

K_mapa_apis == <<"m", "a", "p", "a", "_", "a", "p", "i", "s">>

Widget(w, label) == [w |-> w, label |-> label]

Request(stage, payload) == [stage |-> stage, payload |-> payload]

Returned(text) == [raised |-> FALSE, text |-> text]

Raised == [raised |-> TRUE, text |-> <<>>]

\* nothing of a run is there: the script has just drawn its widgets
NoRun ==
    /\ pc = "idle"
    /\ requests = <<>>
    /\ outcomes = <<>>
    /\ requisitos_json = Unbound
    /\ fluxo_json = Unbound
    /\ apis_json = Unbound
    /\ pdf_buffer = NoPdf
    /\ ui = <<>>
    /\ json_download = <<>>

Init ==
    /\ system_description \in Descriptions
    /\ openai_api_key \in ApiKeys
    /\ NoRun
    /\ response = <<>>
    /\ result = Unbound

\* Click with lines 118-120 left out: the key is not looked at
ClickWithoutKeyCheck ==
    /\ pc = "idle"
    /\ \E init_raises \in BOOLEAN :
        IF system_description = <<>>
        THEN /\ ui' = <<Widget("warning", "Por favor, insira uma descrição do sistema!")>>
             /\ pc' = "done"
             /\ requests' = requests
        ELSE IF init_raises
        THEN /\ ui' = <<Widget("error", "Erro ao inicializar o modelo")>>
             /\ pc' = "done"
             /\ requests' = requests
        ELSE /\ ui' = <<Widget("subheader", "Requisitos do Sistema")>>
             /\ requests' = <<Request("requisitos", system_description)>>
             /\ pc' = "requisitos"
    /\ UNCHANGED <<system_description, openai_api_key, outcomes, requisitos_json,
                   fluxo_json, apis_json, pdf_buffer, json_download, response, result>>

\* lines 211-215 and generate_documentation up to the first invoke (lines 117-149)
Click ==
    /\ pc = "idle"
    /\ \E init_raises \in BOOLEAN :
        IF system_description = <<>>
        THEN /\ ui' = <<Widget("warning", "Por favor, insira uma descrição do sistema!")>>
             /\ pc' = "done"
             /\ requests' = requests
        ELSE IF openai_api_key = <<>>
        THEN /\ ui' = <<Widget("error", "Por favor, insira sua API key!")>>
             /\ pc' = "done"
             /\ requests' = requests
        ELSE IF init_raises
        THEN /\ ui' = <<Widget("error", "Erro ao inicializar o modelo")>>
             /\ pc' = "done"
             /\ requests' = requests
        ELSE /\ ui' = <<Widget("subheader", "Requisitos do Sistema")>>
             /\ requests' = <<Request("requisitos", system_description)>>
             /\ pc' = "requisitos"
    /\ UNCHANGED <<system_description, openai_api_key, outcomes, requisitos_json,
                   fluxo_json, apis_json, pdf_buffer, json_download, response, result>>

\* ReturnRequisitos with line 155 passing requisitos_response on instead of the dumped object
ReturnRequisitosForwardsRawText ==
    /\ pc = "requisitos"
    /\ \E requisitos_response \in ModelTexts :
        /\ outcomes' = Append(outcomes, Returned(requisitos_response))
        /\ requisitos_json' = ensure_json_response(requisitos_response)
        /\ requests' = Append(requests, Request("fluxo", requisitos_response))
    /\ ui' = ui \o <<Widget("json", "requisitos_json"),
                     Widget("subheader", "Fluxo de Componentes")>>
    /\ pc' = "fluxo"
    /\ UNCHANGED <<system_description, openai_api_key, fluxo_json, apis_json, pdf_buffer,
                   json_download, response, result>>

\* lines 149-155: the first invoke returns; up to the second invoke
ReturnRequisitos ==
    /\ pc = "requisitos"
    /\ \E requisitos_response \in ModelTexts :
        /\ outcomes' = Append(outcomes, Returned(requisitos_response))
        /\ requisitos_json' = ensure_json_response(requisitos_response)
    /\ ui' = ui \o <<Widget("json", "requisitos_json"),
                     Widget("subheader", "Fluxo de Componentes")>>
    /\ requests' = Append(requests, Request("fluxo", json_dumps(requisitos_json')))
    /\ pc' = "fluxo"
    /\ UNCHANGED <<system_description, openai_api_key, fluxo_json, apis_json, pdf_buffer,
                   json_download, response, result>>

\* lines 155-161: the second invoke returns; up to the third invoke
ReturnFluxo ==
    /\ pc = "fluxo"
    /\ \E fluxo_response \in ModelTexts :
        /\ outcomes' = Append(outcomes, Returned(fluxo_response))
        /\ fluxo_json' = ensure_json_response(fluxo_response)
    /\ ui' = ui \o <<Widget("json", "fluxo_json"), Widget("subheader", "Mapa de APIs")>>
    /\ requests' = Append(requests, Request("apis", json_dumps(fluxo_json')))
    /\ pc' = "apis"
    /\ UNCHANGED <<system_description, openai_api_key, requisitos_json, apis_json,
                   pdf_buffer, json_download, response, result>>

\* ReturnApis without the try of lines 169-180: a raise of gerar_pdf reaches the except
\* of line 196, past the JSON download button
ReturnApisWithoutPdfTry ==
    /\ pc = "apis"
    /\ \E apis_response \in ModelTexts :
        /\ outcomes' = Append(outcomes, Returned(apis_response))
        /\ apis_json' = ensure_json_response(apis_response)
    /\ pdf_buffer' = gerar_pdf(requisitos_json, fluxo_json, apis_json')
    /\ IF pdf_buffer'.raised
       THEN /\ ui' = ui \o <<Widget("json", "apis_json"),
                             Widget("error", "Erro ao processar etapa"),
                             Widget("info",
                                 "Tente ajustar a temperatura ou usar um modelo diferente.")>>
            /\ json_download' = json_download
       ELSE /\ ui' = ui \o <<Widget("json", "apis_json"),
                             Widget("download_button", "Download PDF"),
                             Widget("download_button", "Download JSON")>>
            /\ json_download' =
                   json_dumps_indent(Dict(<<Item(K_requisitos, requisitos_json),
                                            Item(K_fluxo_componentes, fluxo_json),
                                            Item(K_mapa_apis, apis_json')>>))
    /\ pc' = "done"
    /\ UNCHANGED <<system_description, openai_api_key, requests, requisitos_json,
                   fluxo_json, response, result>>

\* lines 161-194: the third invoke returns; the PDF and the two download buttons
ReturnApis ==
    /\ pc = "apis"
    /\ \E apis_response \in ModelTexts :
        /\ outcomes' = Append(outcomes, Returned(apis_response))
        /\ apis_json' = ensure_json_response(apis_response)
    /\ pdf_buffer' = gerar_pdf(requisitos_json, fluxo_json, apis_json')
    /\ ui' = ui \o <<Widget("json", "apis_json")>>
                \o (IF pdf_buffer'.raised
                    THEN <<Widget("error", "Erro ao gerar PDF")>>
                    ELSE <<Widget("download_button", "Download PDF")>>)
                \o <<Widget("download_button", "Download JSON")>>
    /\ json_download' =
           json_dumps_indent(Dict(<<Item(K_requisitos, requisitos_json),
                                    Item(K_fluxo_componentes, fluxo_json),
                                    Item(K_mapa_apis, apis_json')>>))
    /\ pc' = "done"
    /\ UNCHANGED <<system_description, openai_api_key, requests, requisitos_json,
                   fluxo_json, response, result>>

\* InvokeRaises with an except clause around each stage: the error is shown and the
\* next stage runs on None
InvokeRaisesAndContinues ==
    /\ pc \in {"requisitos", "fluxo", "apis"}
    /\ outcomes' = Append(outcomes, Raised)
    /\ ui' = ui \o <<Widget("error", "Erro ao processar etapa")>>
    /\ IF pc = "requisitos"
       THEN /\ requests' = Append(requests, Request("fluxo", json_dumps(None)))
            /\ pc' = "fluxo"
       ELSE IF pc = "fluxo"
       THEN /\ requests' = Append(requests, Request("apis", json_dumps(None)))
            /\ pc' = "apis"
       ELSE /\ requests' = requests
            /\ pc' = "done"
    /\ UNCHANGED <<system_description, openai_api_key, requisitos_json, fluxo_json,
                   apis_json, pdf_buffer, json_download, response, result>>

\* InvokeRaises with a retry: the stage that failed is invoked again
InvokeRaisesAndRetries ==
    /\ pc \in {"requisitos", "fluxo", "apis"}
    /\ outcomes' = Append(outcomes, Raised)
    /\ requests' = Append(requests, requests[Len(requests)])
    /\ UNCHANGED <<system_description, openai_api_key, pc, requisitos_json, fluxo_json,
                   apis_json, pdf_buffer, ui, json_download, response, result>>

\* lines 196-198: the invoke that is awaited raises
InvokeRaises ==
    /\ pc \in {"requisitos", "fluxo", "apis"}
    /\ outcomes' = Append(outcomes, Raised)
    /\ ui' = ui \o <<Widget("error", "Erro ao processar etapa"),
                     Widget("info", "Tente ajustar a temperatura ou usar um modelo diferente.")>>
    /\ pc' = "done"
    /\ UNCHANGED <<system_description, openai_api_key, requests, requisitos_json,
                   fluxo_json, apis_json, pdf_buffer, json_download, response, result>>

\* the user changes the widgets: Streamlit runs the script again from the top, and
\* what the last run showed is gone
Rerun ==
    /\ pc = "done"
    /\ system_description' \in Descriptions
    /\ openai_api_key' \in ApiKeys
    /\ pc' = "idle"
    /\ requests' = <<>>
    /\ outcomes' = <<>>
    /\ requisitos_json' = Unbound
    /\ fluxo_json' = Unbound
    /\ apis_json' = Unbound
    /\ pdf_buffer' = NoPdf
    /\ ui' = <<>>
    /\ json_download' = <<>>
    /\ UNCHANGED <<response, result>>

Next ==
    \/ Click
    \/ ReturnRequisitos
    \/ ReturnFluxo
    \/ ReturnApis
    \/ InvokeRaises
    \/ Rerun

Spec == Init /\ [][Next]_vars

(***************************************************************************)
(* ensure_json_response alone, on every text over Alphabet of at most      *)
(* MaxLen characters and on the texts of ModelTexts.                       *)
(***************************************************************************)
InitRecover ==
    /\ system_description = <<>>
    /\ openai_api_key = <<>>
    /\ NoRun
    /\ response \in TextsUpTo(MaxLen) \cup ModelTexts
    /\ result = Unbound

Recover ==
    /\ result = Unbound
    /\ result' = ensure_json_response(response)
    /\ UNCHANGED <<system_description, openai_api_key, pc, requests, outcomes,
                   requisitos_json, fluxo_json, apis_json, pdf_buffer, ui, json_download,
                   response>>

NextRecover == Recover

SpecRecover == InitRecover /\ [][NextRecover]_vars

(***************************************************************************)
(* gerar_pdf alone, on bundles of three documents that are each a JSON     *)
(* object or the error object: whole documents, documents whose items lack *)
(* keys, documents with empty or absent collections.  Each is what         *)
(* ensure_json_response returns on the text json.dumps gives for it.       *)
(***************************************************************************)
V == Str(<<"v">>)

SeqsUpTo(S, n) == UNION {[1..m -> S] : m \in 0..n}

\* the dict with each of the keys (a sequence of keys) bound to V
WithKeys(keys) == Dict([i \in 1..Len(keys) |-> Item(keys[i], V)])

\* the dict d with one more item
With(d, key, value) == Dict(SetItem(d.v, key, value))

ReqItems ==
    {WithKeys(<<K_id, K_descricao, K_prioridade>>), WithKeys(<<K_id, K_descricao>>),
     WithKeys(<<K_descricao, K_prioridade>>), WithKeys(<<>>)}

ReqNaoFuncionaisItems == {WithKeys(<<K_id, K_descricao, K_tipo>>), WithKeys(<<K_id>>)}

ReqDocs ==
    {ErrorObject(T_recusa), Dict(<<>>)}
    \cup {Dict(<<Item(K_requisitos_funcionais, List(f)),
                 Item(K_requisitos_nao_funcionais, List(n))>>) :
             f \in SeqsUpTo(ReqItems, MaxItems),
             n \in SeqsUpTo(ReqNaoFuncionaisItems, MaxItems)}

Componente ==
    With(With(WithKeys(<<K_nome, K_descricao>>), K_responsabilidades, List(<<V>>)),
         K_dependencias, List(<<>>))

ComponenteItems == {Componente, WithKeys(<<K_nome, K_descricao>>)}

FluxoItems == {With(WithKeys(<<K_nome>>), K_passos, List(<<V, V>>)), WithKeys(<<K_nome>>)}

FluxoDocs ==
    {ErrorObject(T_recusa)}
    \cup {Dict(<<Item(K_componentes, List(c))>>) : c \in SeqsUpTo(ComponenteItems, MaxItems)}
    \cup {Dict(<<Item(K_componentes, List(c)), Item(K_fluxos, List(f))>>) :
             c \in SeqsUpTo(ComponenteItems, MaxItems),
             f \in SeqsUpTo(FluxoItems, MaxItems)}

Api == With(WithKeys(<<K_rota, K_metodo, K_descricao>>), K_respostas, WithKeys(<<<<"2", "0", "0">>>>))

ApiItems ==
    {Api, With(Api, K_parametros, Dict(<<>>)), With(Api, K_parametros, WithKeys(<<<<"p">>>>)),
     WithKeys(<<K_metodo>>)}

ApiDocs ==
    {ErrorObject(T_recusa)}
    \cup {Dict(<<Item(K_apis, List(a))>>) : a \in SeqsUpTo(ApiItems, MaxItems)}

InitRender ==
    /\ system_description = <<>>
    /\ openai_api_key = <<>>
    /\ pc = "render"
    /\ requests = <<>>
    /\ outcomes = <<>>
    /\ requisitos_json \in ReqDocs
    /\ fluxo_json \in FluxoDocs
    /\ apis_json \in ApiDocs
    /\ pdf_buffer = NoPdf
    /\ ui = <<>>
    /\ json_download = <<>>
    /\ response = <<>>
    /\ result = Unbound

Render ==
    /\ pc = "render"
    /\ pdf_buffer' = gerar_pdf(requisitos_json, fluxo_json, apis_json)
    /\ pc' = "rendered"
    /\ UNCHANGED <<system_description, openai_api_key, requests, outcomes, requisitos_json,
                   fluxo_json, apis_json, ui, json_download, response, result>>

NextRender == Render

SpecRender == InitRender /\ [][NextRender]_vars

(***************************************************************************)
(* The recovery rule in the words of its description: the text from the    *)
(* first { through the last } of T, found by position.                     *)
(***************************************************************************)
HasBraces(T) == (\E i \in 1..Len(T) : T[i] = "{") /\ (\E j \in 1..Len(T) : T[j] = "}")

FirstOpen(T) == CHOOSE i \in 1..Len(T) : T[i] = "{" /\ \A k \in 1..(i - 1) : T[k] # "{"

LastClose(T) == CHOOSE j \in 1..Len(T) : T[j] = "}" /\ \A k \in (j + 1)..Len(T) : T[k] # "}"

BraceSpan(T) == SubSeq(T, FirstOpen(T), LastClose(T))

SpanParses(T) == HasBraces(T) /\ json_loads(BraceSpan(T)).ok

\* neither the direct parse of T nor the parse of its brace span succeeds
Unrecoverable(T) == ~json_loads(T).ok /\ ~SpanParses(T)

\* the result of stage n of this run
StageResult(n) == IF n = 1 THEN requisitos_json ELSE IF n = 2 THEN fluxo_json ELSE apis_json

StageOrder == <<"requisitos", "fluxo", "apis">>

\* all three stages have returned
Completed == pc = "done" /\ Len(outcomes) = 3 /\ ~outcomes[3].raised

\* the dict handed to json.dumps for the JSON download
Export ==
    Dict(<<Item(K_requisitos, requisitos_json), Item(K_fluxo_componentes, fluxo_json),
           Item(K_mapa_apis, apis_json)>>)

Offered(label) == \E i \in 1..Len(ui) : ui[i] = Widget("download_button", label)

Shown(w, label) == \E i \in 1..Len(ui) : ui[i] = Widget(w, label)

\* the object of "Here is the JSON: {...} Thanks!"
EmbeddedObject ==
    Dict(<<Item(K_requisitos_funcionais, List(<<>>)),
           Item(K_requisitos_nao_funcionais, List(<<>>))>>)

(***************************************************************************)
(* The claims.                                                             *)
(***************************************************************************)

\* C1: for every text T that neither parses directly nor parses from its first { through
\* its last } (a text with no brace at all included), ensure_json_response(T) is the
\* error object {"erro": "Não foi possível gerar um JSON válido", "resposta_original": T}.
C1_UnrecoverableGivesErrorObject ==
    (result # Unbound /\ Unrecoverable(response)) => result = ErrorObject(response)

\* C2: at every stage boundary, whatever the model returned, the stage's result is a
\* parsed JSON object or the error object carrying the raw text: never None, never a
\* JSON value that is not an object.
C2_EveryStageResultIsObjectOrMarker ==
    \A n \in 1..Len(outcomes) :
        ~outcomes[n].raised =>
            LET T == outcomes[n].text
                x == StageResult(n)
            IN  /\ IsDict(x)
                /\ \/ x = ErrorObject(T)
                   \/ json_loads(T).ok /\ x = json_loads(T).val
                   \/ SpanParses(T) /\ x = json_loads(BraceSpan(T)).val

\* C3: ensure_json_response applies its tiers in order: a text that is valid JSON as a
\* whole gives its parse; otherwise a text whose span from the first { to the last }
\* is valid JSON gives the parse of that span, so 'Here is the JSON: {...} Thanks!'
\* gives the embedded object.
C3_TiersInOrder ==
    result # Unbound =>
        /\ json_loads(response).ok => result = json_loads(response).val
        /\ (~json_loads(response).ok /\ SpanParses(response))
               => result = json_loads(BraceSpan(response)).val
        /\ response = T_envolvido => result = EmbeddedObject

C3_Witness == response = T_envolvido /\ result = EmbeddedObject

\* C4: an unrecoverable response at stage n does not stop the run: stage n+1 is invoked
\* and its input is the serialization of stage n's error object.
C4_ErrorObjectFedForward ==
    \A n \in 1..Len(outcomes) :
        (n < 3 /\ ~outcomes[n].raised /\ Unrecoverable(outcomes[n].text)) =>
            /\ Len(requests) > n
            /\ requests[n + 1].stage = StageOrder[n + 1]
            /\ requests[n + 1].payload = json_dumps(ErrorObject(outcomes[n].text))

\* C5: if the model invocation of stage n raises, the run ends there: no later stage is
\* invoked, no PDF and no JSON download is offered, and an error message is shown.
C5_InvocationFailureAborts ==
    \A n \in 1..Len(outcomes) :
        outcomes[n].raised =>
            /\ pc = "done"
            /\ Len(outcomes) = n
            /\ Len(requests) = n
            /\ ~Offered("Download PDF") /\ ~Offered("Download JSON")
            /\ pdf_buffer = NoPdf /\ json_download = <<>>
            /\ Shown("error", "Erro ao processar etapa")

C5_Witness ==
    /\ Len(outcomes) = 2
    /\ ~outcomes[1].raised
    /\ outcomes[2].raised
    /\ requisitos_json # Unbound

\* C6: with an empty key or an empty description the run fails before any model
\* invocation: no stage is invoked and no stage result or download is produced.
C6_NoInvocationWithoutKeyOrDescription ==
    (openai_api_key = <<>> \/ system_description = <<>>) =>
        /\ pc \in {"idle", "done"}
        /\ requests = <<>> /\ outcomes = <<>>
        /\ requisitos_json = Unbound /\ fluxo_json = Unbound /\ apis_json = Unbound
        /\ pdf_buffer = NoPdf /\ json_download = <<>>
        /\ pc = "done" => (Len(ui) = 1 /\ ui[1].w \in {"error", "warning"})

C6_Witness ==
    /\ pc = "done"
    /\ system_description # <<>>
    /\ openai_api_key = <<>>
    /\ ui = <<Widget("error", "Por favor, insira sua API key!")>>

\* C7: within a run the model is invoked for Requirements, Flow, API Map in this order,
\* each at most once, and stage n+1 only after stage n's response was received and
\* recovered.
C7_StagesInOrderOnce ==
    /\ Len(requests) <= 3
    /\ Len(outcomes) <= Len(requests)
    /\ \A n \in 1..Len(requests) : requests[n].stage = StageOrder[n]
    /\ \A n \in 2..Len(requests) :
        /\ Len(outcomes) >= n - 1
        /\ ~outcomes[n - 1].raised
        /\ StageResult(n - 1) # Unbound
    /\ \A n \in 1..3 : StageResult(n) # Unbound => (Len(outcomes) >= n /\ ~outcomes[n].raised)

C7_Witness == Completed /\ Len(requests) = 3

\* C8: in a completed run the input of stage 2 is the serialization of stage 1's result
\* and the input of stage 3 that of stage 2's result, and the JSON download has exactly
\* the keys requisitos, fluxo_componentes, mapa_apis with those three results as values:
\* what was fed forward and what is exported for a stage are the same object.
C8_FedForwardAndExportedUnchanged ==
    Completed =>
        /\ requests[2].payload = json_dumps(requisitos_json)
        /\ requests[3].payload = json_dumps(fluxo_json)
        /\ json_loads(json_download).ok
        /\ json_loads(json_download).val = Export
        /\ json_loads(requests[2].payload).val = GetItem(json_loads(json_download).val, K_requisitos)
        /\ json_loads(requests[3].payload).val
               = GetItem(json_loads(json_download).val, K_fluxo_componentes)
        /\ \A n \in 1..3 : StageResult(n) = ensure_json_response(outcomes[n].text)

C8_Witness ==
    /\ Completed
    /\ outcomes[1].text = T_requisitos
    /\ json_loads(requests[2].payload).val = json_loads(T_requisitos).val
    /\ GetItem(json_loads(json_download).val, K_requisitos) = json_loads(T_requisitos).val

\* C9: for every bundle of three documents, each a JSON object or the error object, also
\* with items that lack the expected keys, gerar_pdf does not raise and returns a
\* non-empty document.
C9_RendererTotal ==
    pc = "rendered" => (~pdf_buffer.raised /\ pdf_buffer.elements # <<>>)

\* the number of paragraphs with this text in the rendered document
Labels(text) ==
    Cardinality({i \in 1..Len(pdf_buffer.elements) : pdf_buffer.elements[i].text = text})

FluxosNonEmpty == HasKey(fluxo_json, K_fluxos) /\ GetItem(fluxo_json, K_fluxos).v # <<>>

\* the APIs of the document that have at least one parameter
ApisWithParametros ==
    LET apis == DictGet(apis_json, K_apis, List(<<>>)).v
    IN  {i \in 1..Len(apis) :
            HasKey(apis[i], K_parametros) /\ GetItem(apis[i], K_parametros).v # <<>>}

\* C10: the rendered document has the label "Fluxos:" only if the flow document has a
\* non-empty fluxos list, and a label "Parâmetros:" only for an API that has parameters.
C10_LabelOnlyForNonEmptyCollection ==
    (pc = "rendered" /\ ~pdf_buffer.raised) =>
        /\ Labels("Fluxos:") > 0 => FluxosNonEmpty
        /\ Labels("Parâmetros:") <= Cardinality(ApisWithParametros)

\* C11: once all three stages have produced their results, a failure of the PDF
\* generation is contained: it is shown as the error "Erro ao gerar PDF", the JSON
\* download of the three stage results is still offered in that run, and the
\* stage-failure message is not shown.  gerar_pdf runs, and so fails, only then.
C11_PdfFailureContained ==
    pdf_buffer.raised =>
        /\ Completed
        /\ \A n \in 1..3 : ~outcomes[n].raised
        /\ Shown("error", "Erro ao gerar PDF")
        /\ ~Offered("Download PDF")
        /\ Offered("Download JSON")
        /\ json_loads(json_download).ok
        /\ json_loads(json_download).val = Export
        /\ ~Shown("error", "Erro ao processar etapa")
        /\ ~\E i \in 1..Len(ui) : ui[i].w = "info"

C11_Witness ==
    /\ Completed
    /\ pdf_buffer.raised
    /\ outcomes[1].text = T_item_incompleto
    /\ Shown("error", "Erro ao gerar PDF")
    /\ Offered("Download JSON")
    /\ GetItem(json_loads(json_download).val, K_requisitos) = json_loads(T_item_incompleto).val

====
